---- MODULE Spec2Model ----
(***************************************************************************)
(* Model of webhook/document_extract.py: clear_ocr_output_folder,          *)
(* async_document_extract and get_ocr_output_from_bucket, run against a    *)
(* Cloud Storage bucket and the Vision batch OCR service.                  *)
(*                                                                         *)
(* Strings are sequences of one-character strings, so that prefix tests,   *)
(* regular-expression searches and integer parsing are computed on the     *)
(* characters as the code computes them.  JSON objects are functions from  *)
(* field names to values, so that "field absent" is a fact about DOMAIN.   *)
(***************************************************************************)
EXTENDS Integers, Sequences, FiniteSets, TLC

VARIABLES
    bucket,               \* the destination bucket: object name -> [content, writer, want]
    before,               \* history: the bucket when the invocations started
    pc,                   \* position of each invocation
    unique_id,            \* uuid.uuid4().hex of each invocation
    prefix,               \* the prefix handed to clear_ocr_output_folder
    blobs,                \* clear_ocr_output_folder: listed blobs not yet deleted
    gcs_destination_uri,  \* f"gs://{output_bucket}/{prefix}/"
    requests,             \* number of calls of client.async_batch_annotate_files
    operation,            \* the remote long-running operation
    pages,                \* number of pages of the source document (decided by the service)
    written,              \* number of output files the OCR job has written
    listing,              \* get_ocr_output_from_bucket: list(bucket.list_blobs(prefix))
    sorted_blobs,         \* sorted blobs the loop has not visited yet
    complete_text,        \* the accumulating result string
    result,               \* value returned to the caller
    error,                \* exception surfaced to the caller
    steps,                \* history: the steps the invocation has begun, in order
    readOrder,            \* history: names passed to download_as_bytes, in order
    deleted,              \* history: writers of the objects the invocation deleted
    seen                  \* history: writers of the objects the invocation listed

vars == <<bucket, before, pc, unique_id, prefix, blobs, gcs_destination_uri, requests,
          operation, pages, written, listing, sorted_blobs, complete_text,
          result, error, steps, readOrder, deleted, seen>>

----------------------------------------------------------------------------
(* Bounds *)

MaxBlobs == 3        \* objects in the bucket of one call of cleanup or collection
MaxPages == 3        \* pages of a source document
MaxStale == 1        \* objects the bucket holds before the invocations start

(* Program constants *)

batch_size == 2

Invocations == {1, 2}
Other(i) == 3 - i

----------------------------------------------------------------------------
(* Characters and strings *)

Digits == <<"0", "1", "2", "3", "4", "5", "6", "7", "8", "9">>

IsDigit(c) == \E k \in 1..10 : Digits[k] = c

DigitVal(c) == (CHOOSE k \in 1..10 : Digits[k] = c) - 1

StartsWith(s, p) == Len(p) <= Len(s) /\ SubSeq(s, 1, Len(p)) = p

EndsWith(s, p) == Len(p) <= Len(s) /\ SubSeq(s, Len(s) - Len(p) + 1, Len(s)) = p

\* int(text) for a non-empty run of decimal digits
RECURSIVE int(_)
int(ds) == IF ds = <<>> THEN 0
           ELSE 10 * int(SubSeq(ds, 1, Len(ds) - 1)) + DigitVal(ds[Len(ds)])

\* str(n) for n >= 0, as the service writes page numbers into object names
RECURSIVE str(_)
str(n) == IF n < 10 THEN <<Digits[n + 1]>>
          ELSE str(n \div 10) \o <<Digits[(n % 10) + 1]>>

OUTPUT_ == <<"o", "u", "t", "p", "u", "t", "-">>
TO_     == <<"-", "t", "o", "-">>
JSON_   == <<".", "j", "s", "o", "n">>
OCR_    == <<"o", "c", "r", "/">>
GS_     == <<"g", "s", ":", "/", "/">>
SLASH   == <<"/">>

\* index of the last character of the longest run of digits that starts at p
\* (p - 1 when s[p] is no digit)
RECURSIVE DigitRunEnd(_, _)
DigitRunEnd(s, p) == IF p <= Len(s) /\ IsDigit(s[p]) THEN DigitRunEnd(s, p + 1)
                     ELSE p - 1

\* r'output-(\d+)-to-\d+' matches at position p of s.  "-to-" begins with a
\* character that is no digit, so group 1 can only be the whole digit run.
MatchAt(s, p) ==
    LET q == p + Len(OUTPUT_)
        e == DigitRunEnd(s, q)
    IN  /\ q - 1 <= Len(s)
        /\ SubSeq(s, p, q - 1) = OUTPUT_
        /\ e >= q
        /\ e + Len(TO_) + 1 <= Len(s)
        /\ SubSeq(s, e + 1, e + Len(TO_)) = TO_
        /\ IsDigit(s[e + Len(TO_) + 1])

Min(S) == CHOOSE x \in S : \A y \in S : x <= y

int_of_first_digit(name) ==
    LET M == {p \in 1..Len(name) : MatchAt(name, p)}
    IN  IF M = {} THEN -1
        ELSE DigitVal(name[Min(M) + Len(OUTPUT_)])

\* re.search takes the leftmost match; group(1) is converted with int()
extract_page_number(name) ==
    LET M == {p \in 1..Len(name) : MatchAt(name, p)}
    IN  IF M = {} THEN -1
        ELSE LET q == Min(M) + Len(OUTPUT_)
             IN  int(SubSeq(name, q, DigitRunEnd(name, q)))

\* sorted() is stable: an element goes after every element already placed
\* whose key is not greater
RECURSIVE InsertByKey(_, _)
InsertByKey(x, s) ==
    IF s = <<>> THEN <<x>>
    ELSE IF extract_page_number(x) < extract_page_number(Head(s))
         THEN <<x>> \o s
         ELSE <<Head(s)>> \o InsertByKey(x, Tail(s))

RECURSIVE InsertBeforeEqual(_, _)
InsertBeforeEqual(x, s) ==
    IF s = <<>> THEN <<x>>
    ELSE IF extract_page_number(x) <= extract_page_number(Head(s))
         THEN <<x>> \o s
         ELSE <<Head(s)>> \o InsertBeforeEqual(x, Tail(s))

RECURSIVE unstable_sorted(_)
unstable_sorted(names) ==
    IF names = <<>> THEN <<>>
    ELSE InsertBeforeEqual(names[Len(names)],
                           unstable_sorted(SubSeq(names, 1, Len(names) - 1)))

RECURSIVE sorted(_)
sorted(names) ==
    IF names = <<>> THEN <<>>
    ELSE InsertByKey(names[Len(names)], sorted(SubSeq(names, 1, Len(names) - 1)))

----------------------------------------------------------------------------
(* JSON documents *)

\* dict.get(key, default)
get(obj, key, default) == IF key \in DOMAIN obj THEN obj[key] ELSE default

\* a page response whose missing text is written out as "None"
page_text_or_none(page_response) ==
    get(get(page_response, "fullTextAnnotation", page_response), "text",
        <<"N", "o", "n", "e">>)

\* lines 128-130: what one page response adds to complete_text
page_text(page_response) ==
    IF "fullTextAnnotation" \in DOMAIN page_response
    THEN get(page_response["fullTextAnnotation"], "text", <<>>)
    ELSE <<>>

RECURSIVE responses_text(_)
responses_text(rs) ==
    IF rs = <<>> THEN <<>>
    ELSE page_text(Head(rs)) \o responses_text(Tail(rs))

\* lines 125-130: what one downloaded document adds to complete_text
document_text(response) == responses_text(get(response, "responses", <<>>))

----------------------------------------------------------------------------
(* The storage bucket *)

OutputBucket == <<"b", "k">>

Names(b) == DOMAIN b

\* a listing that takes the prefix for a folder
MatchingFolder(b, p) == {n \in DOMAIN b : StartsWith(n, p \o SLASH)}

\* bucket.list_blobs(prefix=p): the objects whose names start with p
Matching(b, p) == {n \in Names(b) : StartsWith(n, p)}

Perms(S) == {s \in [1..Cardinality(S) -> S] : \A j, k \in 1..Cardinality(S) :
                                                    j # k => s[j] # s[k]}

\* every order in which the listing can come back
Listings(b, p) == Perms(Matching(b, p))

Remove(b, n) == [m \in Names(b) \ {n} |-> b[m]]

Put(b, n, v) == [m \in Names(b) \cup {n} |-> IF m = n THEN v ELSE b[m]]

Writers(b, S) == {b[n].writer : n \in S}

\* re.match(r"gs://([^/]+)/(.+)", uri).group(2); <<>> stands for "no match"
uri_prefix(uri) ==
    IF ~StartsWith(uri, GS_) THEN <<>>
    ELSE LET rest == SubSeq(uri, Len(GS_) + 1, Len(uri))
             cut  == {k \in 1..Len(rest) : rest[k] = "/"}
         IN  IF cut = {} \/ Min(cut) = 1 \/ Min(cut) = Len(rest) THEN <<>>
             ELSE SubSeq(rest, Min(cut) + 1, Len(rest))

\* a prefix that leaves the identifier out
shared_prefix(id) == OCR_ \o <<"j", "o", "b">>

\* line 59: prefix = f"ocr/{unique_id}"
job_prefix(id) == OCR_ \o id

\* line 65: gcs_destination_uri = f"gs://{output_bucket}/{prefix}/"
destination_uri(p) == GS_ \o OutputBucket \o SLASH \o p \o SLASH

\* a filter that lets every object through
is_anything(name) == TRUE

\* line 123: the object is a file, not a folder marker
is_file(name) == ~EndsWith(name, SLASH)

\* line 121: complete_text = ""
empty_text == <<>>

----------------------------------------------------------------------------
(* The source documents and what the OCR job writes for them *)

IDs == {<<"a">>, <<"b">>}

InvLetter(i) == IF i = 1 THEN "x" ELSE "y"

\* recognised text of page p of the document invocation i submits
PageTextOf(i, p) == <<InvLetter(i)>> \o str(p)

NumFiles(n) == (n + batch_size - 1) \div batch_size

FirstPage(k) == (k - 1) * batch_size + 1

LastPage(k, n) == IF k * batch_size < n THEN k * batch_size ELSE n

\* name of the k-th output file of a document of n pages
OutputName(uri, k, n) ==
    uri_prefix(uri) \o OUTPUT_ \o str(FirstPage(k)) \o TO_ \o str(LastPage(k, n)) \o JSON_

\* JSON document of the k-th output file
OutputDocument(i, k, n) ==
    [inputConfig |-> "application/pdf",
     responses   |-> [j \in 1..(LastPage(k, n) - FirstPage(k) + 1) |->
                        [fullTextAnnotation |->
                            [text |-> PageTextOf(i, FirstPage(k) + j - 1)]]]]

\* the text a run of invocation i alone returns for its document
RECURSIVE DocumentText(_, _)
DocumentText(i, n) == IF n = 0 THEN <<>> ELSE DocumentText(i, n - 1) \o PageTextOf(i, n)

----------------------------------------------------------------------------
(* The buckets on which one call of the cleanup or of the collection runs.  *)
(* An object carries its JSON document, who wrote it (0: it was there      *)
(* before any invocation) and, as `want', the text its document was built  *)
(* to hold.                                                                *)

DirA == OCR_ \o <<"a">> \o SLASH
DirB == OCR_ \o <<"b">> \o SLASH

RangeName(dir, first, last, suffix) == dir \o OUTPUT_ \o first \o TO_ \o last \o suffix

N_2   == RangeName(DirA, <<"2">>, <<"3">>, JSON_)
N_10  == RangeName(DirA, <<"1", "0">>, <<"1", "1">>, JSON_)
N_02  == RangeName(DirA, <<"0", "2">>, <<"0", "3">>, JSON_)
N_man == DirA \o <<"m", "a", "n", "i", "f", "e", "s", "t">> \o JSON_
N_dir == DirA
N_1d  == RangeName(DirA, <<"1">>, <<"2">>, SLASH)
N_b1  == RangeName(DirB, <<"1">>, <<"2">>, JSON_)
N_old == OCR_ \o <<"a", "-", "o", "l", "d">>

TestNames == {N_2, N_10, N_02, N_man, N_dir, N_1d, N_b1, N_old}

\* the start page each test name was built with (-1: built without a page range)
StartPage(n) ==
    CASE n = N_2  -> 2
      [] n = N_10 -> 10
      [] n = N_02 -> 2
      [] n = N_1d -> 1
      [] n = N_b1 -> 1
      [] OTHER    -> -1

\* one letter per test name, used as the text of its pages
Tag(n) ==
    CASE n = N_2   -> "A"
      [] n = N_10  -> "B"
      [] n = N_02  -> "C"
      [] n = N_man -> "D"
      [] n = N_dir -> "E"
      [] n = N_1d  -> "F"
      [] n = N_b1  -> "G"
      [] OTHER     -> "H"

Kinds == {"plain", "no_responses", "mixed"}

\* JSON documents: every page has text / there is no 'responses' field / the
\* second page has no 'fullTextAnnotation' and the third one's has no 'text'
TestDocument(n, kind) ==
    CASE kind = "plain" ->
           [inputConfig |-> "application/pdf",
            responses   |-> << [fullTextAnnotation |-> [text |-> <<Tag(n), "1">>]] >>]
      [] kind = "no_responses" ->
           [inputConfig |-> "application/pdf"]
      [] OTHER ->
           [inputConfig |-> "application/pdf",
            responses   |-> << [fullTextAnnotation |-> [text |-> <<Tag(n), "1">>]],
                               [context |-> "page 2"],
                               [fullTextAnnotation |-> [pages |-> "page 3"]],
                               [fullTextAnnotation |-> [text |-> <<Tag(n), "4">>]] >>]

TestWant(n, kind) ==
    CASE kind = "plain"        -> <<Tag(n), "1">>
      [] kind = "no_responses" -> <<>>
      [] OTHER                 -> <<Tag(n), "1", Tag(n), "4">>

TestObject(n, kind) ==
    [content |-> TestDocument(n, kind), writer |-> 0, want |-> TestWant(n, kind)]

TestBuckets ==
    UNION {{[n \in S |-> TestObject(n, k[n])] : k \in [S -> Kinds]} :
           S \in {T \in SUBSET TestNames : Cardinality(T) <= MaxBlobs}}

\* prefixes the cleanup is called with
TestPrefixes == {job_prefix(<<"a">>), DirA, OCR_, RangeName(DirA, <<"1">>, <<"2">>, <<>>),
                 <<"z">>}

\* objects left behind by earlier runs, which a whole invocation may find
StaleNames == {RangeName(DirA, <<"5">>, <<"6">>, JSON_),
               RangeName(DirB, <<"5">>, <<"6">>, JSON_),
               <<"k", "e", "e", "p">>}

StaleObject == [content |-> [inputConfig |-> "application/pdf",
                             responses   |-> << [fullTextAnnotation |-> [text |-> <<"s">>]] >>],
                writer  |-> 0,
                want    |-> <<"s">>]

StaleBuckets == {[n \in S |-> StaleObject] :
                 S \in {T \in SUBSET StaleNames : Cardinality(T) <= MaxStale}}

----------------------------------------------------------------------------
(* Invocations *)

NoValue == <<>>

StepOrder == <<"cleanup", "submit", "wait", "collect">>

Set(f, i, v) == [f EXCEPT ![i] = v]

\* an exception leaves the function: nothing in the file catches one
Raise(i, exception) ==
    /\ pc' = Set(pc, i, "failed")
    /\ error' = Set(error, i, exception)

\* lines 58-62: draw the identifier, derive the prefix, call the cleanup
Start(i) ==
    /\ pc[i] = "start"
    /\ \E id \in IDs :
         /\ unique_id' = Set(unique_id, i, id)
         /\ prefix' = Set(prefix, i, job_prefix(id))
    /\ steps' = Set(steps, i, Append(steps[i], "cleanup"))
    /\ pc' = Set(pc, i, "clear_list")
    /\ UNCHANGED <<bucket, before, blobs, gcs_destination_uri, requests, operation,
                   pages, written, listing, sorted_blobs, complete_text, result,
                   error, readOrder, deleted, seen>>

\* lines 24-26: get the bucket and list the blobs under the prefix
ClearList(i) ==
    /\ pc[i] = "clear_list"
    /\ \E l \in Listings(bucket, prefix[i]) : blobs' = Set(blobs, i, l)
    /\ pc' = Set(pc, i, "clear_delete")
    /\ UNCHANGED <<bucket, before, unique_id, prefix, gcs_destination_uri, requests,
                   operation, pages, written, listing, sorted_blobs, complete_text,
                   result, error, steps, readOrder, deleted, seen>>

\* lines 24-26 when the storage service refuses (bucket not found, permission)
ClearListFail(i) ==
    /\ pc[i] = "clear_list"
    /\ Raise(i, "StorageError")
    /\ UNCHANGED <<bucket, before, unique_id, prefix, blobs, gcs_destination_uri,
                   requests, operation, pages, written, listing, sorted_blobs,
                   complete_text, result, steps, readOrder, deleted, seen>>

\* a loop that forgets blob.delete()
ClearDeleteForgotten(i) ==
    /\ pc[i] = "clear_delete"
    /\ blobs[i] # <<>>
    /\ blobs' = Set(blobs, i, Tail(blobs[i]))
    /\ UNCHANGED <<bucket, before, pc, unique_id, prefix, gcs_destination_uri, requests,
                   operation, pages, written, listing, sorted_blobs, complete_text,
                   result, error, steps, readOrder, deleted, seen>>

\* lines 27-28: delete the next listed blob; a blob that is gone raises NotFound
ClearDelete(i) ==
    /\ pc[i] = "clear_delete"
    /\ blobs[i] # <<>>
    /\ LET blob == Head(blobs[i])
       IN  IF blob \in Names(bucket)
           THEN /\ bucket' = Remove(bucket, blob)
                /\ deleted' = Set(deleted, i, deleted[i] \cup {bucket[blob].writer})
                /\ blobs' = Set(blobs, i, Tail(blobs[i]))
                /\ UNCHANGED <<pc, error>>
           ELSE /\ Raise(i, "NotFound")
                /\ UNCHANGED <<bucket, deleted, blobs>>
    /\ UNCHANGED <<before, unique_id, prefix, gcs_destination_uri, requests, operation,
                   pages, written, listing, sorted_blobs, complete_text, result,
                   steps, readOrder, seen>>

\* line 29: the loop is over and the cleanup returns
ClearReturn(i) ==
    /\ pc[i] = "clear_delete"
    /\ blobs[i] = <<>>
    /\ pc' = Set(pc, i, "submit")
    /\ UNCHANGED <<bucket, before, unique_id, prefix, blobs, gcs_destination_uri,
                   requests, operation, pages, written, listing, sorted_blobs,
                   complete_text, result, error, steps, readOrder, deleted, seen>>

\* lines 64-88: build the request and submit it; the service accepts it and
\* starts a job on a document of some number of pages
Submit(i) ==
    /\ pc[i] = "submit"
    /\ gcs_destination_uri' = Set(gcs_destination_uri, i, destination_uri(prefix[i]))
    /\ requests' = Set(requests, i, requests[i] + 1)
    /\ operation' = Set(operation, i, "running")
    /\ \E n \in 1..MaxPages : pages' = Set(pages, i, n)
    /\ steps' = Set(steps, i, steps[i] \o <<"submit", "wait">>)
    /\ pc' = Set(pc, i, "wait")
    /\ UNCHANGED <<bucket, before, unique_id, prefix, blobs, written, listing,
                   sorted_blobs, complete_text, result, error, readOrder, deleted,
                   seen>>

\* line 86 when the service rejects the request
SubmitFail(i) ==
    /\ pc[i] = "submit"
    /\ gcs_destination_uri' = Set(gcs_destination_uri, i, destination_uri(prefix[i]))
    /\ requests' = Set(requests, i, requests[i] + 1)
    /\ steps' = Set(steps, i, Append(steps[i], "submit"))
    /\ Raise(i, "SubmitError")
    /\ UNCHANGED <<bucket, before, unique_id, prefix, blobs, operation, pages, written,
                   listing, sorted_blobs, complete_text, result, readOrder, deleted,
                   seen>>

\* the remote job writes its next output file under the destination URI
OcrWrite(i) ==
    /\ operation[i] = "running"
    /\ written[i] < NumFiles(pages[i])
    /\ LET k == written[i] + 1
       IN  /\ bucket' = Put(bucket, OutputName(gcs_destination_uri[i], k, pages[i]),
                            [content |-> OutputDocument(i, k, pages[i]),
                             writer  |-> i,
                             want    |-> document_text(OutputDocument(i, k, pages[i]))])
           /\ written' = Set(written, i, k)
    /\ UNCHANGED <<before, pc, unique_id, prefix, blobs, gcs_destination_uri, requests,
                   operation, pages, listing, sorted_blobs, complete_text, result,
                   error, steps, readOrder, deleted, seen>>

\* the remote job has written every file: the operation is done
OcrFinish(i) ==
    /\ operation[i] = "running"
    /\ written[i] = NumFiles(pages[i])
    /\ operation' = Set(operation, i, "succeeded")
    /\ UNCHANGED <<bucket, before, pc, unique_id, prefix, blobs, gcs_destination_uri,
                   requests, pages, written, listing, sorted_blobs, complete_text,
                   result, error, steps, readOrder, deleted, seen>>

\* the remote job fails
OcrFail(i) ==
    /\ operation[i] = "running"
    /\ operation' = Set(operation, i, "failed")
    /\ UNCHANGED <<bucket, before, pc, unique_id, prefix, blobs, gcs_destination_uri,
                   requests, pages, written, listing, sorted_blobs, complete_text,
                   result, error, steps, readOrder, deleted, seen>>

\* lines 89-93: operation.result() returns, the collection is called
WaitDone(i) ==
    /\ pc[i] = "wait"
    /\ operation[i] = "succeeded"
    /\ steps' = Set(steps, i, Append(steps[i], "collect"))
    /\ pc' = Set(pc, i, "collect_list")
    /\ UNCHANGED <<bucket, before, unique_id, prefix, blobs, gcs_destination_uri,
                   requests, operation, pages, written, listing, sorted_blobs,
                   complete_text, result, error, readOrder, deleted, seen>>

\* line 89: operation.result() raises the error of the failed operation
WaitError(i) ==
    /\ pc[i] = "wait"
    /\ operation[i] = "failed"
    /\ Raise(i, "OcrError")
    /\ UNCHANGED <<bucket, before, unique_id, prefix, blobs, gcs_destination_uri,
                   requests, operation, pages, written, listing, sorted_blobs,
                   complete_text, result, steps, readOrder, deleted, seen>>

\* a timeout that is caught, after which the request is submitted again
WaitTimeoutRetry(i) ==
    /\ pc[i] = "wait"
    /\ operation[i] = "running"
    /\ pc' = Set(pc, i, "submit")
    /\ UNCHANGED <<bucket, before, unique_id, prefix, blobs, gcs_destination_uri,
                   requests, operation, pages, written, listing, sorted_blobs,
                   complete_text, result, error, steps, readOrder, deleted, seen>>

\* a timeout that is caught, after which the output is collected all the same
WaitTimeoutIgnored(i) ==
    /\ pc[i] = "wait"
    /\ operation[i] = "running"
    /\ error' = Set(error, i, "TimeoutError")
    /\ pc' = Set(pc, i, "collect_list")
    /\ UNCHANGED <<bucket, before, unique_id, prefix, blobs, gcs_destination_uri,
                   requests, operation, pages, written, listing, sorted_blobs,
                   complete_text, result, steps, readOrder, deleted, seen>>

\* line 89: `timeout' seconds pass while the operation is still running
WaitTimeout(i) ==
    /\ pc[i] = "wait"
    /\ operation[i] = "running"
    /\ Raise(i, "TimeoutError")
    /\ UNCHANGED <<bucket, before, unique_id, prefix, blobs, gcs_destination_uri,
                   requests, operation, pages, written, listing, sorted_blobs,
                   complete_text, result, steps, readOrder, deleted, seen>>

\* lines 106-121: parse the prefix out of the URI, list, sort
CollectList(i) ==
    /\ pc[i] = "collect_list"
    /\ LET p == uri_prefix(gcs_destination_uri[i])
       IN  IF p = <<>>
           THEN /\ Raise(i, "AttributeError")
                /\ UNCHANGED <<listing, sorted_blobs, complete_text, seen>>
           ELSE /\ \E l \in Listings(bucket, p) :
                     /\ listing' = Set(listing, i, l)
                     /\ sorted_blobs' = Set(sorted_blobs, i, sorted(l))
                /\ complete_text' = Set(complete_text, i, empty_text)
                /\ seen' = Set(seen, i, seen[i] \cup Writers(bucket, Matching(bucket, p)))
                /\ pc' = Set(pc, i, "collect_read")
                /\ UNCHANGED error
    /\ UNCHANGED <<bucket, before, unique_id, prefix, blobs, gcs_destination_uri,
                   requests, operation, pages, written, result, steps, readOrder,
                   deleted>>

\* lines 109-111 when the storage service refuses
CollectListFail(i) ==
    /\ pc[i] = "collect_list"
    /\ Raise(i, "StorageError")
    /\ UNCHANGED <<bucket, before, unique_id, prefix, blobs, gcs_destination_uri,
                   requests, operation, pages, written, listing, sorted_blobs,
                   complete_text, result, steps, readOrder, deleted, seen>>

\* lines 122-130: one turn of the loop over the sorted blobs
CollectRead(i) ==
    /\ pc[i] = "collect_read"
    /\ sorted_blobs[i] # <<>>
    /\ LET output == Head(sorted_blobs[i])
       IN  IF ~is_file(output)
           THEN /\ sorted_blobs' = Set(sorted_blobs, i, Tail(sorted_blobs[i]))
                /\ UNCHANGED <<pc, error, readOrder, complete_text, seen>>
           ELSE IF output \notin Names(bucket)
           THEN /\ Raise(i, "NotFound")
                /\ readOrder' = Set(readOrder, i, Append(readOrder[i], output))
                /\ UNCHANGED <<sorted_blobs, complete_text, seen>>
           ELSE /\ readOrder' = Set(readOrder, i, Append(readOrder[i], output))
                /\ complete_text' = Set(complete_text, i,
                       complete_text[i] \o document_text(bucket[output].content))
                /\ seen' = Set(seen, i, seen[i] \cup {bucket[output].writer})
                /\ sorted_blobs' = Set(sorted_blobs, i, Tail(sorted_blobs[i]))
                /\ UNCHANGED <<pc, error>>
    /\ UNCHANGED <<bucket, before, unique_id, prefix, blobs, gcs_destination_uri,
                   requests, operation, pages, written, listing, result, steps,
                   deleted>>

\* a return that refuses an empty result
CollectReturnNonEmpty(i) ==
    /\ pc[i] = "collect_read"
    /\ sorted_blobs[i] = <<>>
    /\ IF readOrder[i] = <<>>
       THEN Raise(i, "ValueError") /\ UNCHANGED result
       ELSE /\ result' = Set(result, i, <<complete_text[i]>>)
            /\ pc' = Set(pc, i, "done")
            /\ UNCHANGED error
    /\ UNCHANGED <<bucket, before, unique_id, prefix, blobs, gcs_destination_uri,
                   requests, operation, pages, written, listing, sorted_blobs,
                   complete_text, steps, readOrder, deleted, seen>>

\* line 132: return complete_text
CollectReturn(i) ==
    /\ pc[i] = "collect_read"
    /\ sorted_blobs[i] = <<>>
    /\ result' = Set(result, i, <<complete_text[i]>>)
    /\ pc' = Set(pc, i, "done")
    /\ UNCHANGED <<bucket, before, unique_id, prefix, blobs, gcs_destination_uri,
                   requests, operation, pages, written, listing, sorted_blobs,
                   complete_text, error, steps, readOrder, deleted, seen>>

----------------------------------------------------------------------------
(* Specifications *)

Fresh(f) == [i \in Invocations |-> f]

InitLocals ==
    /\ blobs = Fresh(<<>>)
    /\ listing = Fresh(<<>>)
    /\ sorted_blobs = Fresh(<<>>)
    /\ complete_text = Fresh(<<>>)
    /\ result = Fresh(NoValue)
    /\ error = Fresh("none")
    /\ readOrder = Fresh(<<>>)
    /\ deleted = Fresh({})
    /\ seen = Fresh({})
    /\ pages = Fresh(0)
    /\ written = Fresh(0)

\* two invocations of async_document_extract on the same destination bucket
Init ==
    /\ bucket \in StaleBuckets
    /\ before = bucket
    /\ pc = Fresh("start")
    /\ unique_id = Fresh(<<>>)
    /\ prefix = Fresh(<<>>)
    /\ gcs_destination_uri = Fresh(<<>>)
    /\ requests = Fresh(0)
    /\ operation = Fresh("none")
    /\ steps = Fresh(<<>>)
    /\ InitLocals

Next ==
    \E i \in Invocations :
        \/ Start(i) \/ ClearList(i) \/ ClearListFail(i) \/ ClearDelete(i) \/ ClearReturn(i)
        \/ Submit(i) \/ SubmitFail(i)
        \/ OcrWrite(i) \/ OcrFinish(i) \/ OcrFail(i)
        \/ WaitDone(i) \/ WaitError(i) \/ WaitTimeout(i)
        \/ CollectList(i) \/ CollectListFail(i) \/ CollectRead(i) \/ CollectReturn(i)

Spec == Init /\ [][Next]_vars

\* one invocation of async_document_extract, alone on the bucket
InitSolo ==
    /\ bucket \in StaleBuckets
    /\ before = bucket
    /\ pc = [i \in Invocations |-> IF i = 1 THEN "start" ELSE "idle"]
    /\ unique_id = Fresh(<<>>)
    /\ prefix = Fresh(<<>>)
    /\ gcs_destination_uri = Fresh(<<>>)
    /\ requests = Fresh(0)
    /\ operation = Fresh("none")
    /\ steps = Fresh(<<>>)
    /\ InitLocals

SpecSolo == InitSolo /\ [][Next]_vars

\* one call clear_ocr_output_folder(bucket, prefix), on any bucket and prefix
InitClear ==
    /\ bucket \in TestBuckets
    /\ before = bucket
    /\ pc = [i \in Invocations |-> IF i = 1 THEN "clear_list" ELSE "idle"]
    /\ unique_id = Fresh(<<>>)
    /\ \E p \in TestPrefixes : prefix = [i \in Invocations |-> IF i = 1 THEN p ELSE <<>>]
    /\ gcs_destination_uri = Fresh(<<>>)
    /\ requests = Fresh(0)
    /\ operation = Fresh("none")
    /\ steps = [i \in Invocations |-> IF i = 1 THEN <<"cleanup">> ELSE <<>>]
    /\ InitLocals

NextClear == \E i \in Invocations : ClearList(i) \/ ClearDelete(i) \/ ClearReturn(i)

SpecClear == InitClear /\ [][NextClear]_vars

\* one call get_ocr_output_from_bucket(uri, bucket), on any bucket content
InitCollect ==
    /\ bucket \in TestBuckets
    /\ before = bucket
    /\ pc = [i \in Invocations |-> IF i = 1 THEN "collect_list" ELSE "idle"]
    /\ unique_id = [i \in Invocations |-> IF i = 1 THEN <<"a">> ELSE <<>>]
    /\ prefix = [i \in Invocations |-> IF i = 1 THEN job_prefix(<<"a">>) ELSE <<>>]
    /\ gcs_destination_uri =
         [i \in Invocations |-> IF i = 1 THEN destination_uri(job_prefix(<<"a">>)) ELSE <<>>]
    /\ requests = [i \in Invocations |-> IF i = 1 THEN 1 ELSE 0]
    /\ operation = [i \in Invocations |-> IF i = 1 THEN "succeeded" ELSE "none"]
    /\ steps = [i \in Invocations |-> IF i = 1 THEN StepOrder ELSE <<>>]
    /\ InitLocals

NextCollect == \E i \in Invocations : CollectList(i) \/ CollectRead(i) \/ CollectReturn(i)

SpecCollect == InitCollect /\ [][NextCollect]_vars

----------------------------------------------------------------------------
(* Properties.  Those of one call are stated of invocation 1, the only one  *)
(* that runs in SpecClear, SpecCollect and SpecSolo.                        *)

Range(s) == {s[j] : j \in 1..Len(s)}

Pos(s, x) == CHOOSE j \in 1..Len(s) : s[j] = x

Markers == {N_dir, N_1d}

Finished(i) == pc[i] \in {"done", "failed"}

Collecting(i) == pc[i] \in {"collect_list", "collect_read", "done"}

\* the texts the documents of the named objects hold, one after the other
RECURSIVE ConcatText(_)
ConcatText(names) ==
    IF names = <<>> THEN <<>>
    ELSE document_text(bucket[Head(names)].content) \o ConcatText(Tail(names))

\* the texts the named objects were built to hold, one after the other
RECURSIVE ConcatWant(_)
ConcatWant(names) ==
    IF names = <<>> THEN <<>>
    ELSE bucket[Head(names)].want \o ConcatWant(Tail(names))

\* C1: the blobs are read, and their texts concatenated, in ascending order of
\* the start page their names were built with, read as an integer; a blob
\* whose name holds no page range (start page -1) comes before every blob
\* whose name holds one; every listed file is read once.
C1_AscendingStartPage ==
    /\ \A j, k \in 1..Len(readOrder[1]) :
         j < k => StartPage(readOrder[1][j]) <= StartPage(readOrder[1][k])
    /\ pc[1] = "done" =>
         /\ Range(readOrder[1]) = Range(listing[1]) \ Markers
         /\ Len(readOrder[1]) = Cardinality(Range(readOrder[1]))
         /\ result[1] = <<ConcatText(readOrder[1])>>

C1_Witness ==
    /\ pc[1] = "done"
    /\ listing[1] = <<N_10, N_2, N_man>>
    /\ readOrder[1] = <<N_man, N_2, N_10>>
    /\ result[1] = <<<<"D", "1", "A", "1", "B", "1">>>>

\* C2: the cleanup never fails of itself, never touches an object whose name
\* does not start with the prefix, never adds an object, and when it returns
\* the bucket holds exactly the objects it held before whose names do not
\* start with the prefix (all of them when none matches).
C2_ClearDeletesExactlyThePrefix ==
    /\ pc[1] # "failed"
    /\ DOMAIN bucket \subseteq DOMAIN before
    /\ \A n \in DOMAIN before :
         ~StartsWith(n, prefix[1]) => n \in DOMAIN bucket /\ bucket[n] = before[n]
    /\ pc[1] = "submit" =>
         bucket = [n \in {m \in DOMAIN before : ~StartsWith(m, prefix[1])} |-> before[n]]

C2_Witness ==
    /\ pc[1] = "submit"
    /\ prefix[1] = job_prefix(<<"a">>)
    /\ DOMAIN before = {N_2, N_old, N_b1}
    /\ DOMAIN bucket = {N_b1}

\* C3: when the request is submitted the cleanup has returned and has left
\* no object under 'ocr/<id>' that was there before; from then on every
\* object under that prefix, and every object the collection lists or
\* reads, was written by this invocation's OCR job.
C3_ListingSeesOnlyThisJob ==
    /\ requests[1] >= 1 =>
         /\ Len(steps[1]) >= 2 /\ steps[1][1] = "cleanup" /\ steps[1][2] = "submit"
         /\ blobs[1] = <<>>
         /\ \A n \in DOMAIN bucket : StartsWith(n, prefix[1]) => bucket[n].writer = 1
    /\ seen[1] \subseteq {1}

C3_Witness ==
    /\ pc[1] = "done"
    /\ unique_id[1] = <<"a">>
    /\ RangeName(DirA, <<"5">>, <<"6">>, JSON_) \in DOMAIN before
    /\ deleted[1] = {0}
    /\ seen[1] = {1}
    /\ Len(listing[1]) = 2

\* C4, as claimed: every invocation submits exactly one request; it collects
\* only after the operation has finished; a timeout makes it fail with the
\* timeout error; no second request is ever submitted.
C4_EveryInvocationSubmitsOnce ==
    \A i \in Invocations :
        /\ requests[i] <= 1
        /\ Finished(i) => requests[i] = 1
        /\ Collecting(i) => operation[i] = "succeeded"
        /\ error[i] = "TimeoutError" =>
             pc[i] = "failed" /\ steps[i] = <<"cleanup", "submit", "wait">>
        /\ (pc[i] = "failed" /\ operation[i] = "running") => error[i] = "TimeoutError"

CleanupFailed(i) == pc[i] = "failed" /\ steps[i] = <<"cleanup">>

\* C4, amended: every invocation whose cleanup returns without an error
\* submits exactly one request, and one whose cleanup fails submits none;
\* it collects only after the operation has finished; a timeout makes it
\* fail with the timeout error; no second request is ever submitted.
C4_SubmitsOnceAfterCleanup ==
    \A i \in Invocations :
        /\ requests[i] <= 1
        /\ Finished(i) => requests[i] = (IF CleanupFailed(i) THEN 0 ELSE 1)
        /\ pc[i] = "wait" => requests[i] = 1
        /\ Collecting(i) => operation[i] = "succeeded"
        /\ error[i] = "TimeoutError" =>
             pc[i] = "failed" /\ steps[i] = <<"cleanup", "submit", "wait">>
        /\ (pc[i] = "failed" /\ operation[i] = "running") => error[i] = "TimeoutError"

C4_Witness ==
    /\ pc[1] = "failed" /\ error[1] = "TimeoutError" /\ requests[1] = 1
    /\ pc[2] = "done" /\ requests[2] = 1

\* C5: the collection raises no error, and what it returns is the text its
\* documents were built to hold: nothing for a document without 'responses',
\* nothing for a page response without 'fullTextAnnotation' or whose
\* annotation has no 'text', and the text of every other page response.
C5_MissingFieldsAddNothing ==
    /\ pc[1] # "failed"
    /\ error[1] = "none"
    /\ pc[1] = "collect_read" => complete_text[1] = ConcatWant(readOrder[1])
    /\ pc[1] = "done" => result[1] = <<ConcatWant(readOrder[1])>>

C5_Witness ==
    /\ pc[1] = "done"
    /\ readOrder[1] = <<N_man, N_2, N_10>>
    /\ bucket[N_man].content = TestDocument(N_man, "no_responses")
    /\ bucket[N_2].content = TestDocument(N_2, "mixed")
    /\ bucket[N_10].content = TestDocument(N_10, "plain")
    /\ result[1] = <<<<"A", "1", "A", "4", "B", "1">>>>

\* C6: an object whose name was built with a final '/' is never downloaded,
\* and no text of its document is in the result, whether its name holds a
\* page range or not.
C6_FolderMarkersSkipped ==
    /\ Range(readOrder[1]) \cap Markers = {}
    /\ \A n \in Markers : Tag(n) \notin Range(complete_text[1])
    /\ pc[1] = "done" => \A n \in Markers : Tag(n) \notin Range(result[1][1])

C6_Witness ==
    /\ pc[1] = "done"
    /\ listing[1] = <<N_2, N_1d, N_dir>>
    /\ bucket[N_1d].content = TestDocument(N_1d, "plain")
    /\ bucket[N_dir].content = TestDocument(N_dir, "mixed")
    /\ readOrder[1] = <<N_2>>

\* C7: when the listing is empty the collection raises no error and
\* returns the empty string.
C7_EmptyListingEmptyString ==
    (pc[1] \in {"collect_read", "done", "failed"} /\ listing[1] = <<>>) =>
        /\ pc[1] # "failed"
        /\ error[1] = "none"
        /\ complete_text[1] = <<>>
        /\ pc[1] = "done" => result[1] = <<<<>>>>

C7_Witness ==
    /\ pc[1] = "done"
    /\ listing[1] = <<>>
    /\ DOMAIN bucket = {N_b1, N_old}
    /\ result[1] = <<<<>>>>

\* the exceptions each step can raise
StepErrors(step) ==
    CASE step = "cleanup" -> {"StorageError", "NotFound"}
      [] step = "submit"  -> {"SubmitError"}
      [] step = "wait"    -> {"OcrError", "TimeoutError"}
      [] OTHER            -> {"StorageError", "NotFound", "AttributeError"}

\* C8: the steps begin in the order cleanup, submit, wait, collect; an
\* invocation that fails surfaces the exception of the step it was in, has
\* begun no later step and returns nothing: no request after a failed
\* cleanup, no listing and no download after a failed submit or wait.
C8_FailureStopsTheInvocation ==
    \A i \in Invocations :
        /\ Len(steps[i]) <= Len(StepOrder)
        /\ steps[i] = SubSeq(StepOrder, 1, Len(steps[i]))
        /\ pc[i] = "done" => error[i] = "none" /\ steps[i] = StepOrder
        /\ pc[i] # "failed" => error[i] = "none"
        /\ pc[i] # "done" => result[i] = NoValue
        /\ pc[i] = "failed" =>
             /\ steps[i] # <<>>
             /\ error[i] \in StepErrors(steps[i][Len(steps[i])])
        /\ ~("submit" \in Range(steps[i])) => requests[i] = 0 /\ operation[i] = "none"
        /\ ~("collect" \in Range(steps[i])) =>
             listing[i] = <<>> /\ readOrder[i] = <<>> /\ seen[i] = {} /\ complete_text[i] = <<>>

C8_Witness ==
    /\ pc[1] = "failed" /\ error[1] = "NotFound" /\ steps[1] = StepOrder
    /\ complete_text[1] # <<>> /\ result[1] = NoValue
    /\ pc[2] = "failed" /\ error[2] = "TimeoutError"

\* C9: when the two invocations drew different identifiers, neither deletes
\* an object written by the other's job, neither lists or reads one, and
\* each returns the text of its own document, as it does when it runs alone.
C9_DistinctIdentifiersDoNotInterfere ==
    (unique_id[1] # <<>> /\ unique_id[2] # <<>> /\ unique_id[1] # unique_id[2]) =>
        \A i \in Invocations :
            /\ Other(i) \notin deleted[i]
            /\ Other(i) \notin seen[i]
            /\ pc[i] = "done" => result[i] = <<DocumentText(i, pages[i])>>

C9_Witness ==
    /\ pc[1] = "done" /\ pc[2] = "done"
    /\ unique_id[1] = <<"a">> /\ unique_id[2] = <<"b">>
    /\ pages[1] = 3 /\ pages[2] = 2
    /\ result[1] = <<<<"x", "1", "x", "2", "x", "3">>>>
    /\ result[2] = <<<<"y", "1", "y", "2">>>>
    /\ deleted[2] = {0}

\* what a run alone returns: the text of its document
SoloReturnsDocumentText ==
    pc[1] = "done" => result[1] = <<DocumentText(1, pages[1])>>

\* C10: two blobs whose names were built with the same start page (or both
\* without a page range) are read in the order in which the listing
\* returned them.
C10_TiesKeepListingOrder ==
    \A j, k \in 1..Len(readOrder[1]) :
        (j < k /\ StartPage(readOrder[1][j]) = StartPage(readOrder[1][k])) =>
            Pos(listing[1], readOrder[1][j]) < Pos(listing[1], readOrder[1][k])

C10_Witness ==
    /\ pc[1] = "done"
    /\ listing[1] = <<N_02, N_10, N_2>>
    /\ readOrder[1] = <<N_02, N_2, N_10>>

====
